---- MODULE Spec2Model ----
(***************************************************************************)
(* Model of bootstrap/hook.go: the hook script wrapper.                    *)
(*                                                                         *)
(* newHookScriptWrapper creates three temporary files (wrapper script,     *)
(* before-dump, after-dump) and writes the wrapper script; an external     *)
(* launcher runs the script as a child shell; ChangedEnvironment decodes   *)
(* the two dumps and diffs them; Close removes the three files.            *)
(***************************************************************************)
EXTENDS Integers, Sequences, FiniteSets, TLC

\* ------------------------------------------------------------------ bounds

\* Longest raw dump file (in records) drawn as an arbitrary input in SpecDiff.
MaxDumpLen == 2

\* ------------------------------------------------------------- value sets

\* The sentinel variable of the generated script (hook.go:79, 86, 131).
Sentinel == "BUILDKITE_LAST_HOOK_EXIT_STATUS"

\* Variable names of the modelled environments, in the order a shell lists them.
NameOrder == <<Sentinel, "FOO", "PATH">>

Names == {NameOrder[i] : i \in 1..Len(NameOrder)}

\* Values a variable may hold before or after a hook.
Values == {"a", "b"}

\* Exit statuses a hook may end with.
Statuses == {0, 1, 42, 127}

\* The decimal text of an exit status, as $? / !ERRORLEVEL! expand to.
Itoa(c) ==
  CASE c = 0 -> "0"
    [] c = 1 -> "1"
    [] c = 42 -> "42"
    [] c = 127 -> "127"

\* The number a shell's exit builtin reads back from a decimal text.
Atoi(s) ==
  CASE s = "0" -> 0
    [] s = "1" -> 1
    [] s = "42" -> 42
    [] s = "127" -> 127
    [] OTHER -> 255

\* The three temporary files of one wrapper, by the field that holds them.
Paths == {"script", "before", "after"}

\* The names the launcher's environment and the hook's exports are drawn from.
ShellNames == {Sentinel, "FOO"}

\* Environments: finite maps from some of the names N to values in V.
EnvsOver(N, V) == UNION {[D -> V] : D \in SUBSET N}

\* Environments a hook may leave behind: any value for an ordinary variable;
\* one value for the sentinel, which the capture line overwrites before any
\* dump can list it.
Envs ==
  {e \in EnvsOver(ShellNames, Values) : Sentinel \in DOMAIN e => e[Sentinel] = "a"}

EmptyEnv == [k \in {} |-> "a"]

\* Hook paths handed to newHookScriptWrapper: one relative, one absolute.
HookPaths ==
  { [abs |-> FALSE, parts |-> <<"hooks", "pre-command">>],
    [abs |-> TRUE, parts |-> <<"etc", "hooks", "pre-command">>] }

\* The working directory filepath.Abs joins a relative path to.
Cwd == <<"builds">>

Platforms == {"posix", "windows"}

\* ------------------------------------------------- env package (env.*)

\* One record of a dump file: a variable declaration the decoder understands
\* (declare -x NAME="value" / NAME=value), or a line it cannot parse.
DeclRecord(k, v) == [kind |-> "decl", name |-> k, value |-> v]

JunkRecord == [kind |-> "junk", name |-> "", value |-> ""]

DumpRecords == {DeclRecord(k, v) : k \in Names, v \in Values} \cup {JunkRecord}

\* Raw dump contents of at most n records.
DumpsUpTo(n) == UNION {[1..m -> DumpRecords] : m \in 0..n}

\* env.Environment.Set on a map.
EnvSet(e, k, v) == [x \in DOMAIN e \cup {k} |-> IF x = k THEN v ELSE e[x]]

\* env.FromExport: decodes a dump; unparseable lines are skipped and the last
\* declaration of a name wins.
RECURSIVE FromExport(_)
FromExport(content) ==
  IF content = <<>> THEN EmptyEnv
  ELSE LET n == Len(content)
           rest == FromExport(SubSeq(content, 1, n - 1))
           r == content[n]
       IN IF r.kind = "decl" THEN EnvSet(rest, r.name, r.value) ELSE rest

\* env.Environment.Remove: the map without key k.
EnvRemove(e, k) == [x \in DOMAIN e \ {k} |-> e[x]]

\* env.Environment.Diff: the entries of e that other lacks or holds with
\* another value.
EnvDiff(e, other) ==
  [k \in {x \in DOMAIN e : x \notin DOMAIN other \/ other[x] # e[x]} |-> e[k]]

\* What the shell's dump command (export -p / SET) writes for the variables
\* vars: one declaration per variable, in the shell's listing order.
RECURSIVE ExportDumpFrom(_, _)
ExportDumpFrom(vars, i) ==
  IF i > Len(NameOrder) THEN <<>>
  ELSE (IF NameOrder[i] \in DOMAIN vars
          THEN <<DeclRecord(NameOrder[i], vars[NameOrder[i]])>>
          ELSE <<>>) \o ExportDumpFrom(vars, i + 1)

ExportDump(vars) == ExportDumpFrom(vars, 1)

\* --------------------------------------------------- script generation

\* filepath.Abs: an absolute path is returned as it is, a relative one is
\* joined to the working directory.
Abs(p) == IF p.abs THEN p ELSE [abs |-> TRUE, parts |-> Cwd \o p.parts]

\* One line of the wrapper script: the command, the dump file it names (if
\* any) and the hook path it names (if any).
NoPath == [abs |-> FALSE, parts |-> <<>>]

Line(op, file, hook) == [op |-> op, file |-> file, hook |-> hook]

\* WindowsScript with the before-dump written after the hook was called.
WindowsScript_DumpAfterCall(beforeName, absolutePathToHook, afterName) ==
  << Line("echo_off", "", NoPath),
     Line("setlocal", "", NoPath),
     Line("call", "", absolutePathToHook),
     Line("dump", beforeName, NoPath),
     Line("capture", "", NoPath),
     Line("dump", afterName, NoPath),
     Line("exit", "", NoPath) >>

\* PosixScript with the status captured after the after-dump was written.
PosixScript_CaptureLate(beforeName, absolutePathToHook, afterName) ==
  << Line("shebang", "", NoPath),
     Line("dump", beforeName, NoPath),
     Line("source", "", absolutePathToHook),
     Line("dump", afterName, NoPath),
     Line("capture", "", NoPath),
     Line("exit", "", NoPath) >>

\* The script text newHookScriptWrapper generates, line by line; beforeName and
\* afterName are the names of the two dump files, absolutePathToHook the hook.
WindowsScript(beforeName, absolutePathToHook, afterName) ==
  << Line("echo_off", "", NoPath),
     Line("setlocal", "", NoPath),
     Line("dump", beforeName, NoPath),
     Line("call", "", absolutePathToHook),
     Line("capture", "", NoPath),
     Line("dump", afterName, NoPath),
     Line("exit", "", NoPath) >>

PosixScript(beforeName, absolutePathToHook, afterName) ==
  << Line("shebang", "", NoPath),
     Line("dump", beforeName, NoPath),
     Line("source", "", absolutePathToHook),
     Line("capture", "", NoPath),
     Line("dump", afterName, NoPath),
     Line("exit", "", NoPath) >>

GenScript(goos, beforeName, absolutePathToHook, afterName) ==
  IF goos = "windows"
    THEN WindowsScript(beforeName, absolutePathToHook, afterName)
    ELSE PosixScript(beforeName, absolutePathToHook, afterName)

\* ------------------------------------------------------------------ state

VARIABLES
  goos,       \* runtime.GOOS of the build: "posix" or "windows"
  hookPath,   \* the hookPath argument of newHookScriptWrapper
  pc,         \* position of newHookScriptWrapper
  h,          \* the hookScriptWrapper under construction: its file fields
  handles,    \* per temporary file: "none", "open" or "closed" *os.File
  fs,         \* the disk: per temporary file whether it exists, content, mode
  absHook,    \* absolutePathToHook once resolved
  ret,        \* what newHookScriptWrapper returned: wrapper or nil, and error
  log,        \* the statements newHookScriptWrapper has executed, in order
  child,      \* the shell process running the wrapper script
  hookOut,    \* what the hook did when it ran: environment, status, exit
  closePc,    \* position of Close
  removeFailed, \* files whose os.Remove in Close failed and left the file
  raced,      \* whether the child ran a step after Close had started
  ceRet       \* what the last ChangedEnvironment call returned

vars ==
  << goos, hookPath, pc, h, handles, fs, absHook, ret, log, child, hookOut,
     closePc, removeFailed, raced, ceRet >>

ctorVars == <<pc, h, handles, absHook, ret, log>>

NoFile == [exists |-> FALSE, content |-> <<>>, exec |-> FALSE]

NewFile == [exists |-> TRUE, content |-> <<>>, exec |-> FALSE]

NoChild ==
  [ state |-> "none", prog |-> <<>>, ip |-> 1, parent |-> EmptyEnv,
    vars |-> EmptyEnv, exported |-> {}, last |-> 0, exit |-> 0, trace |-> <<>> ]

NoHookOut == [ran |-> FALSE, env |-> EmptyEnv, status |-> 0, exits |-> FALSE]

NoResult == [called |-> FALSE, nil |-> TRUE, env |-> EmptyEnv, err |-> "none",
             childState |-> "none", closePc |-> "idle"]

\* The state before newHookScriptWrapper(hookPath) runs: h holds only the
\* hook path (hook.go:35-37), no temporary file exists.
Init ==
  /\ goos \in Platforms
  /\ hookPath \in HookPaths
  /\ pc = "createScript"
  /\ h = [scriptFile |-> "nil", beforeEnvFile |-> "nil", afterEnvFile |-> "nil"]
  /\ handles = [script |-> "none", before |-> "none", after |-> "none"]
  /\ fs = [script |-> NoFile, before |-> NoFile, after |-> NoFile]
  /\ absHook = NoPath
  /\ ret = [returned |-> FALSE, h |-> "nil", err |-> "none"]
  /\ log = <<>>
  /\ child = NoChild
  /\ hookOut = NoHookOut
  /\ closePc = "idle"
  /\ removeFailed = {}
  /\ raced = FALSE
  /\ ceRet = NoResult

\* ------------------------------------------- newHookScriptWrapper

notCtorVars == <<goos, hookPath, child, hookOut, closePc, removeFailed, raced, ceRet>>

\* return x, err
Return(wrapper, err) ==
  /\ ret' = [returned |-> TRUE, h |-> wrapper, err |-> err]
  /\ pc' = "returned"

\* h.scriptFile, err = shell.TempFileWithExtension(...): on success the file
\* exists, empty, and its handle is open; on failure nil and the error return.
NewCreateScript ==
  /\ pc = "createScript"
  /\ \E ok \in BOOLEAN :
       IF ok
         THEN /\ fs' = [fs EXCEPT !.script = NewFile]
              /\ handles' = [handles EXCEPT !.script = "open"]
              /\ h' = [h EXCEPT !.scriptFile = "script"]
              /\ log' = Append(log, "createScript")
              /\ pc' = "createBefore"
              /\ UNCHANGED ret
         ELSE /\ Return("nil", "tempfile")
              /\ UNCHANGED <<fs, handles, h, log>>
  /\ UNCHANGED <<absHook, notCtorVars>>

\* h.beforeEnvFile, err = shell.TempFileWithExtension(...); on success
\* h.beforeEnvFile.Close(); on failure return nil, err.
NewCreateBefore ==
  /\ pc = "createBefore"
  /\ \E ok \in BOOLEAN :
       IF ok
         THEN /\ fs' = [fs EXCEPT !.before = NewFile]
              /\ handles' = [handles EXCEPT !.before = "closed"]
              /\ h' = [h EXCEPT !.beforeEnvFile = "before"]
              /\ log' = log \o <<"createBefore", "closeBefore">>
              /\ pc' = "createAfter"
              /\ UNCHANGED ret
         ELSE /\ Return("nil", "tempfile")
              /\ UNCHANGED <<fs, handles, h, log>>
  /\ UNCHANGED <<absHook, notCtorVars>>

\* NewCreateAfter without h.afterEnvFile.Close().
NewCreateAfter_NoClose ==
  /\ pc = "createAfter"
  /\ \E ok \in BOOLEAN :
       IF ok
         THEN /\ fs' = [fs EXCEPT !.after = NewFile]
              /\ handles' = [handles EXCEPT !.after = "open"]
              /\ h' = [h EXCEPT !.afterEnvFile = "after"]
              /\ log' = log \o <<"createAfter">>
              /\ pc' = "abs"
              /\ UNCHANGED ret
         ELSE /\ Return("nil", "tempfile")
              /\ UNCHANGED <<fs, handles, h, log>>
  /\ UNCHANGED <<absHook, notCtorVars>>

\* h.afterEnvFile, err = shell.TempFileWithExtension(...); on success
\* h.afterEnvFile.Close(); on failure return nil, err.
NewCreateAfter ==
  /\ pc = "createAfter"
  /\ \E ok \in BOOLEAN :
       IF ok
         THEN /\ fs' = [fs EXCEPT !.after = NewFile]
              /\ handles' = [handles EXCEPT !.after = "closed"]
              /\ h' = [h EXCEPT !.afterEnvFile = "after"]
              /\ log' = log \o <<"createAfter", "closeAfter">>
              /\ pc' = "abs"
              /\ UNCHANGED ret
         ELSE /\ Return("nil", "tempfile")
              /\ UNCHANGED <<fs, handles, h, log>>
  /\ UNCHANGED <<absHook, notCtorVars>>

\* absolutePathToHook, err := filepath.Abs(h.hookPath): fails only when a
\* relative path cannot be joined to the working directory; then return nil, err.
NewAbs ==
  /\ pc = "abs"
  /\ \E ok \in BOOLEAN :
       IF ok \/ hookPath.abs
         THEN /\ absHook' = Abs(hookPath)
              /\ log' = Append(log, "abs")
              /\ pc' = "write"
              /\ UNCHANGED ret
         ELSE /\ Return("nil", "abs")
              /\ UNCHANGED <<absHook, log>>
  /\ UNCHANGED <<fs, handles, h, notCtorVars>>

\* How many lines of a script of n lines a WriteString call may leave in the
\* file: all of them, or (a failed, short write) none or all but the last.
WrittenLens(n) == {0, n - 1, n}

\* script = ...; h.scriptFile.WriteString(script): writes n lines of the
\* script, all of them when the write succeeds; the result is not looked at.
NewWriteScript ==
  /\ pc = "write"
  /\ LET script == GenScript(goos, h.beforeEnvFile, absHook, h.afterEnvFile)
     IN \E n \in WrittenLens(Len(script)) :
          fs' = [fs EXCEPT !.script.content = SubSeq(script, 1, n)]
  /\ log' = Append(log, "write")
  /\ pc' = "closeScript"
  /\ UNCHANGED <<handles, h, absHook, ret, notCtorVars>>

\* h.scriptFile.Close()
NewCloseScript ==
  /\ pc = "closeScript"
  /\ handles' = [handles EXCEPT !.script = "closed"]
  /\ log' = Append(log, "closeScript")
  /\ pc' = "chmod"
  /\ UNCHANGED <<fs, h, absHook, ret, notCtorVars>>

\* if err = addExecutePermissiontoFile(h.scriptFile.Name()); err != nil
\* { return h, err }; return h, nil
NewChmod ==
  /\ pc = "chmod"
  /\ log' = Append(log, "chmod")
  /\ \E ok \in BOOLEAN :
       IF ok
         THEN /\ fs' = [fs EXCEPT !.script.exec = TRUE]
              /\ Return("h", "none")
         ELSE /\ Return("h", "chmod")
              /\ UNCHANGED fs
  /\ UNCHANGED <<handles, h, absHook, notCtorVars>>

\* ------------------------------------------ the wrapper script, running

\* Environments the launcher may start the script in.
ParentEnvs == EnvsOver(ShellNames, {"a"})

notChildVars == <<goos, hookPath, ctorVars, closePc, removeFailed, ceRet>>

\* The launcher runs Path() as a child process: the constructor returned a
\* wrapper and no error, and the caller has not closed the wrapper. The shell
\* starts with the launcher's environment, every variable exported.
Launch ==
  /\ ret.returned /\ ret.h = "h" /\ ret.err = "none"
  /\ closePc = "idle"
  /\ child.state = "none"
  /\ fs[h.scriptFile].exists /\ fs[h.scriptFile].exec
  /\ \E e \in ParentEnvs :
       child' = [NoChild EXCEPT !.state = "running",
                                !.prog = fs[h.scriptFile].content,
                                !.parent = e, !.vars = e, !.exported = DOMAIN e]
  /\ UNCHANGED <<fs, hookOut, raced, notChildVars>>

\* The line the shell is about to run.
Cur == child.prog[child.ip]

AtLine(ops) ==
  /\ child.state = "running"
  /\ child.ip <= Len(child.prog)
  /\ Cur.op \in ops

\* The child ran a step: note whether Close had already started.
Stepped == raced' = (raced \/ closePc # "idle")

\* The variables a dump lists: the exported ones.
DumpVars == [k \in child.exported |-> child.vars[k]]

\* "#!/bin/bash", "@echo off", "SETLOCAL ENABLEDELAYEDEXPANSION": no effect on
\* the environment or the files.
ExecPreamble ==
  /\ AtLine({"shebang", "echo_off", "setlocal"})
  /\ child' = [child EXCEPT !.ip = @ + 1, !.last = 0, !.trace = Append(@, Cur)]
  /\ Stepped
  /\ UNCHANGED <<fs, hookOut, notChildVars>>

\* export -p > "file" / SET > "file": the redirection creates or truncates
\* the file and the listing of the environment is written to it.
ExecDump ==
  /\ AtLine({"dump"})
  /\ fs' = [fs EXCEPT ![Cur.file] =
              [exists |-> TRUE, content |-> ExportDump(DumpVars), exec |-> @.exec]]
  /\ child' = [child EXCEPT !.ip = @ + 1, !.last = 0, !.trace = Append(@, Cur)]
  /\ Stepped
  /\ UNCHANGED <<hookOut, notChildVars>>

\* . "hook" / CALL "hook": the hook runs in the wrapper's own shell; it leaves
\* any environment e and status c, and either returns or exits the shell.
ExecHook ==
  /\ AtLine({"source", "call"})
  /\ \E e \in Envs, c \in Statuses, exits \in BOOLEAN :
       /\ hookOut' = [ran |-> TRUE, env |-> e, status |-> c, exits |-> exits]
       /\ child' = [child EXCEPT !.vars = e, !.exported = DOMAIN e,
                                 !.last = c, !.trace = Append(@, Cur),
                                 !.ip = IF exits THEN @ ELSE @ + 1,
                                 !.state = IF exits THEN "exited" ELSE @,
                                 !.exit = IF exits THEN c ELSE @]
  /\ Stepped
  /\ UNCHANGED <<fs, notChildVars>>

\* BUILDKITE_LAST_HOOK_EXIT_STATUS=$? / SET BUILDKITE_LAST_HOOK_EXIT_STATUS=
\* !ERRORLEVEL!: a shell variable on POSIX (exported only if it already was),
\* an environment variable on Windows.
ExecCapture ==
  /\ AtLine({"capture"})
  /\ child' = [child EXCEPT !.vars = EnvSet(@, Sentinel, Itoa(child.last)),
                            !.exported = IF goos = "windows"
                                           THEN @ \cup {Sentinel} ELSE @,
                            !.ip = @ + 1, !.last = 0, !.trace = Append(@, Cur)]
  /\ Stepped
  /\ UNCHANGED <<fs, hookOut, notChildVars>>

\* exit $BUILDKITE_LAST_HOOK_EXIT_STATUS / EXIT %BUILDKITE_LAST_HOOK_EXIT_STATUS%
ExecExit ==
  /\ AtLine({"exit"})
  /\ child' = [child EXCEPT !.state = "exited", !.trace = Append(@, Cur),
                            !.exit = IF Sentinel \in DOMAIN child.vars
                                       THEN Atoi(child.vars[Sentinel])
                                       ELSE child.last]
  /\ Stepped
  /\ UNCHANGED <<fs, hookOut, notChildVars>>

\* The shell reaches the end of a script that has no exit line left (a
\* script file that was not written in full): it ends with the last status.
ChildEof ==
  /\ child.state = "running"
  /\ child.ip > Len(child.prog)
  /\ child' = [child EXCEPT !.state = "exited", !.exit = child.last]
  /\ Stepped
  /\ UNCHANGED <<fs, hookOut, notChildVars>>

\* The launcher kills the child (a hung hook): the shell runs no further
\* line and leaves the files as they are.
ChildKill ==
  /\ child.state = "running"
  /\ child' = [child EXCEPT !.state = "killed"]
  /\ UNCHANGED <<fs, hookOut, raced, notChildVars>>

\* ------------------------------------------------------------------ Close

\* os.Remove(name): the file is deleted, or the call fails and the file is
\* left (an absent file is a failure that leaves nothing); Close does not
\* look at the result.
Remove(name, ok) ==
  /\ fs' = IF fs[name].exists /\ ok THEN [fs EXCEPT ![name] = NoFile] ELSE fs
  /\ removeFailed' = IF fs[name].exists /\ ~ok
                       THEN removeFailed \cup {name} ELSE removeFailed

notCloseVars == <<goos, hookPath, ctorVars, child, hookOut, raced, ceRet>>

\* os.Remove(h.scriptFile.Name())
CloseScript ==
  /\ ret.returned /\ ret.h = "h"
  /\ closePc = "idle"
  /\ \E ok \in BOOLEAN : Remove(h.scriptFile, ok)
  /\ closePc' = "before"
  /\ UNCHANGED notCloseVars

\* Close without the removal of the before-dump.
CloseBefore_Skip ==
  /\ closePc = "before"
  /\ closePc' = "after"
  /\ UNCHANGED <<fs, removeFailed, notCloseVars>>

\* os.Remove(h.beforeEnvFile.Name())
CloseBefore ==
  /\ closePc = "before"
  /\ \E ok \in BOOLEAN : Remove(h.beforeEnvFile, ok)
  /\ closePc' = "after"
  /\ UNCHANGED notCloseVars

\* Close without the removal of the after-dump.
CloseAfter_Skip ==
  /\ closePc = "after"
  /\ closePc' = "done"
  /\ UNCHANGED <<fs, removeFailed, notCloseVars>>

\* os.Remove(h.afterEnvFile.Name())
CloseAfter ==
  /\ closePc = "after"
  /\ \E ok \in BOOLEAN : Remove(h.afterEnvFile, ok)
  /\ closePc' = "done"
  /\ UNCHANGED notCloseVars

\* The removal failures Close hands to its caller or writes to a log: Close
\* has no result and logs nothing, so none.
CloseReported == {}

\* ----------------------------------------------------- ChangedEnvironment

\* ChangedEnvironmentOf with the operands of Diff exchanged.
ChangedEnvironmentOf_DiffSwapped(bf, af) ==
  IF ~bf.exists
    THEN [nil |-> TRUE, env |-> EmptyEnv, err |-> "before"]
  ELSE IF ~af.exists
    THEN [nil |-> TRUE, env |-> EmptyEnv, err |-> "after"]
  ELSE LET beforeEnv == FromExport(bf.content)
           afterEnv == EnvRemove(FromExport(af.content), Sentinel)
       IN [nil |-> FALSE, env |-> EnvDiff(beforeEnv, afterEnv), err |-> "none"]

\* ChangedEnvironmentOf with the sentinel removed from the before-snapshot
\* instead of the after-snapshot.
ChangedEnvironmentOf_RemoveFromBefore(bf, af) ==
  IF ~bf.exists
    THEN [nil |-> TRUE, env |-> EmptyEnv, err |-> "before"]
  ELSE IF ~af.exists
    THEN [nil |-> TRUE, env |-> EmptyEnv, err |-> "after"]
  ELSE LET beforeEnv == EnvRemove(FromExport(bf.content), Sentinel)
           afterEnv == FromExport(af.content)
       IN [nil |-> FALSE, env |-> EnvDiff(afterEnv, beforeEnv), err |-> "none"]

\* ChangedEnvironmentOf without the removal of the sentinel.
ChangedEnvironmentOf_NoRemove(bf, af) ==
  IF ~bf.exists
    THEN [nil |-> TRUE, env |-> EmptyEnv, err |-> "before"]
  ELSE IF ~af.exists
    THEN [nil |-> TRUE, env |-> EmptyEnv, err |-> "after"]
  ELSE LET beforeEnv == FromExport(bf.content)
           afterEnv == FromExport(af.content)
       IN [nil |-> FALSE, env |-> EnvDiff(afterEnv, beforeEnv), err |-> "none"]

\* ChangedEnvironmentOf reading the after-dump before the before-dump.
ChangedEnvironmentOf_AfterFirst(bf, af) ==
  IF ~af.exists
    THEN [nil |-> TRUE, env |-> EmptyEnv, err |-> "after"]
  ELSE IF ~bf.exists
    THEN [nil |-> TRUE, env |-> EmptyEnv, err |-> "before"]
  ELSE LET beforeEnv == FromExport(bf.content)
           afterEnv == EnvRemove(FromExport(af.content), Sentinel)
       IN [nil |-> FALSE, env |-> EnvDiff(afterEnv, beforeEnv), err |-> "none"]

\* ChangedEnvironmentOf taking an empty dump file for one that was not written.
ChangedEnvironmentOf_EmptyIsError(bf, af) ==
  IF ~bf.exists \/ bf.content = <<>>
    THEN [nil |-> TRUE, env |-> EmptyEnv, err |-> "before"]
  ELSE IF ~af.exists \/ af.content = <<>>
    THEN [nil |-> TRUE, env |-> EmptyEnv, err |-> "after"]
  ELSE LET beforeEnv == FromExport(bf.content)
           afterEnv == EnvRemove(FromExport(af.content), Sentinel)
       IN [nil |-> FALSE, env |-> EnvDiff(afterEnv, beforeEnv), err |-> "none"]

\* What ChangedEnvironment returns when the before-dump file is bf and the
\* after-dump file is af.
ChangedEnvironmentOf(bf, af) ==
  IF ~bf.exists
    THEN [nil |-> TRUE, env |-> EmptyEnv, err |-> "before"]
  ELSE IF ~af.exists
    THEN [nil |-> TRUE, env |-> EmptyEnv, err |-> "after"]
  ELSE LET beforeEnv == FromExport(bf.content)
           afterEnv == EnvRemove(FromExport(af.content), Sentinel)
       IN [nil |-> FALSE, env |-> EnvDiff(afterEnv, beforeEnv), err |-> "none"]

\* The call of h.ChangedEnvironment() on a returned wrapper (the function
\* reads the disk and changes nothing, so one call in an arbitrary state stands
\* for all); the result is kept with the state of the child and of Close it
\* was computed in.
ChangedEnvironment ==
  /\ ret.returned /\ ret.h = "h"
  /\ ~ceRet.called
  /\ LET r == ChangedEnvironmentOf(fs[h.beforeEnvFile], fs[h.afterEnvFile])
     IN ceRet' = [called |-> TRUE, nil |-> r.nil, env |-> r.env, err |-> r.err,
                  childState |-> child.state, closePc |-> closePc]
  /\ UNCHANGED <<goos, hookPath, ctorVars, fs, child, hookOut, closePc,
                 removeFailed, raced>>

\* ---------------------------------------------------------- specification

Next ==
  \/ NewCreateScript
  \/ NewCreateBefore
  \/ NewCreateAfter
  \/ NewAbs
  \/ NewWriteScript
  \/ NewCloseScript
  \/ NewChmod
  \/ Launch
  \/ ExecPreamble
  \/ ExecDump
  \/ ExecHook
  \/ ExecCapture
  \/ ExecExit
  \/ ChildEof
  \/ ChildKill
  \/ CloseScript
  \/ CloseBefore
  \/ CloseAfter
  \/ ChangedEnvironment

Spec == Init /\ [][Next]_vars

\* ---------------------------------- ChangedEnvironment on arbitrary dumps

\* A dump file as any child run, hook or other process may have left it:
\* missing, or holding any records (declarations, repeated names, junk).
DumpFiles ==
  {NoFile} \cup
  {[exists |-> TRUE, content |-> c, exec |-> FALSE] : c \in DumpsUpTo(MaxDumpLen)}

\* The statements of a construction that succeeded.
FullLog ==
  << "createScript", "createBefore", "closeBefore", "createAfter", "closeAfter",
     "abs", "write", "closeScript", "chmod" >>

\* A wrapper that was constructed and whose script has been run, with the two
\* dump files in any state.
InitDiff ==
  /\ goos \in Platforms
  /\ hookPath = [abs |-> TRUE, parts |-> <<"etc", "hooks", "pre-command">>]
  /\ pc = "returned"
  /\ h = [scriptFile |-> "script", beforeEnvFile |-> "before", afterEnvFile |-> "after"]
  /\ handles = [script |-> "closed", before |-> "closed", after |-> "closed"]
  /\ \E bf \in DumpFiles, af \in DumpFiles :
       fs = [ script |-> [exists |-> TRUE, exec |-> TRUE,
                          content |-> GenScript(goos, "before", hookPath, "after")],
              before |-> bf, after |-> af ]
  /\ absHook = hookPath
  /\ ret = [returned |-> TRUE, h |-> "h", err |-> "none"]
  /\ log = FullLog
  /\ child = [NoChild EXCEPT !.state = "exited",
                             !.prog = GenScript(goos, "before", hookPath, "after")]
  /\ hookOut = NoHookOut
  /\ closePc = "idle"
  /\ removeFailed = {}
  /\ raced = FALSE
  /\ ceRet = NoResult

NextDiff == ChangedEnvironment

SpecDiff == InitDiff /\ [][NextDiff]_vars

\* ----------------------------------------------------------------- claims

\* The snapshots a ChangedEnvironment call decodes from the disk.
BeforeSnap == FromExport(fs[h.beforeEnvFile].content)

AfterSnap == FromExport(fs[h.afterEnvFile].content)

\* C1: the environment ChangedEnvironment returns holds k -> v exactly when
\* k is in the after-snapshot with value v, k is not the sentinel, and the
\* before-snapshot lacks k or holds another value for it; so no key absent
\* from the after-snapshot (a variable the hook removed) is in the result.
C1_DiffExact ==
  (ceRet.called /\ ~ceRet.nil) =>
    \A k \in Names :
      /\ (k \in DOMAIN ceRet.env) <=>
           /\ k \in DOMAIN AfterSnap
           /\ k # Sentinel
           /\ (k \notin DOMAIN BeforeSnap \/ BeforeSnap[k] # AfterSnap[k])
      /\ (k \in DOMAIN ceRet.env) => ceRet.env[k] = AfterSnap[k]

\* A call whose before-snapshot holds PATH and FOO, whose after-snapshot has
\* lost PATH and changed FOO, and whose result is exactly FOO's new value.
C1_Witness ==
  /\ ceRet.called /\ ~ceRet.nil
  /\ BeforeSnap = [k \in {"FOO", "PATH"} |-> "a"]
  /\ AfterSnap = [k \in {"FOO"} |-> "b"]
  /\ ceRet.env = [k \in {"FOO"} |-> "b"]

\* C3: the environment ChangedEnvironment returns never holds the sentinel
\* key, whatever the two dump files contain.
C3_NoSentinel ==
  ceRet.called => Sentinel \notin DOMAIN ceRet.env

\* A call on dumps that both declare the sentinel, with different values.
C3_Witness ==
  /\ ceRet.called /\ ~ceRet.nil
  /\ Sentinel \in DOMAIN BeforeSnap
  /\ Sentinel \in DOMAIN AfterSnap
  /\ BeforeSnap[Sentinel] # AfterSnap[Sentinel]
  /\ Sentinel \notin DOMAIN ceRet.env

\* C7: ChangedEnvironment returns an error and no environment exactly when
\* a dump file cannot be read, the before-dump being looked at first; a dump
\* file that exists, even empty or unparseable, gives an environment and no
\* error.
C7_ErrorIffUnreadable ==
  ceRet.called =>
    LET bf == fs[h.beforeEnvFile]
        af == fs[h.afterEnvFile]
    IN /\ ~bf.exists => (ceRet.err = "before" /\ ceRet.nil)
       /\ (bf.exists /\ ~af.exists) => (ceRet.err = "after" /\ ceRet.nil)
       /\ (bf.exists /\ af.exists) => (ceRet.err = "none" /\ ~ceRet.nil)

\* A call with an unparseable before-dump and a missing after-dump: the error
\* names the after-dump.
C7_Witness ==
  /\ ceRet.called
  /\ fs[h.beforeEnvFile].exists
  /\ fs[h.beforeEnvFile].content = <<JunkRecord>>
  /\ ~fs[h.afterEnvFile].exists
  /\ ceRet.err = "after" /\ ceRet.nil

\* The script newHookScriptWrapper generates for this wrapper.
FullScript == GenScript(goos, h.beforeEnvFile, Abs(hookPath), h.afterEnvFile)

\* The child is (or was) a run of the complete generated script.
RunsFullScript == child.state # "none" /\ child.prog = FullScript

\* C2: a run of the generated wrapper script in which the hook ended with
\* status c terminates with exit status c, on both platforms.
C2_ExitStatusFidelity ==
  (RunsFullScript /\ child.state = "exited" /\ hookOut.ran) =>
    child.exit = hookOut.status

\* A finished run of the POSIX script whose hook returned 127 (without
\* exiting the shell itself) and which ended with 127.
C2_Witness ==
  /\ RunsFullScript /\ child.state = "exited"
  /\ goos = "posix"
  /\ hookOut.ran /\ ~hookOut.exits /\ hookOut.status = 127
  /\ child.exit = 127

IsHookLine(l) == l.op \in {"source", "call"}

\* C9: in every run of the generated script the before-dump is written before
\* the hook is invoked; the hook is sourced (POSIX) or called (Windows) by its
\* absolute path; the very next step stores the hook's status in the sentinel;
\* the after-dump is written after that capture; and the exit with the
\* captured status is the last step.
C9_ScriptOrder ==
  RunsFullScript =>
    LET t == child.trace
    IN /\ \A i \in 1..Len(t) :
            /\ IsHookLine(t[i]) =>
                 /\ t[i].hook.abs /\ t[i].hook = Abs(hookPath)
                 /\ t[i].op = (IF goos = "windows" THEN "call" ELSE "source")
                 /\ \E j \in 1..(i - 1) :
                      t[j].op = "dump" /\ t[j].file = h.beforeEnvFile
                 /\ i < Len(t) => t[i + 1].op = "capture"
            /\ t[i].op = "capture" =>
                 /\ i > 1 /\ IsHookLine(t[i - 1])
                 /\ child.vars[Sentinel] = Itoa(hookOut.status)
            /\ (t[i].op = "dump" /\ t[i].file = h.afterEnvFile) =>
                 \E j \in 1..(i - 1) : t[j].op = "capture"
            /\ t[i].op = "exit" =>
                 /\ i = Len(t) /\ child.state = "exited"
                 /\ \E j \in 1..(i - 1) :
                      t[j].op = "dump" /\ t[j].file = h.afterEnvFile
                 /\ child.exit = Atoi(child.vars[Sentinel])
       /\ (child.state = "exited" /\ ~hookOut.exits) =>
            (t # <<>> /\ t[Len(t)].op = "exit")

\* A finished run of the Windows script for a relative hook path whose hook
\* returned: all seven lines ran, in the order of the script.
C9_Witness ==
  /\ RunsFullScript /\ child.state = "exited"
  /\ goos = "windows" /\ ~hookPath.abs
  /\ ~hookOut.exits /\ hookOut.status = 1
  /\ Len(child.trace) = 7
  /\ child.trace[4].hook = [abs |-> TRUE, parts |-> <<"builds", "hooks", "pre-command">>]

\* C10: if the hook leaves the environment as it found it, a
\* ChangedEnvironment call made after the script has run to completion (and
\* before Close) returns the empty environment and no error, on both
\* platforms.
C10_NoopHookEmptyDiff ==
  ( /\ ceRet.called /\ ceRet.childState = "exited" /\ ceRet.closePc = "idle"
    /\ hookOut.ran /\ hookOut.env = child.parent ) =>
    (~ceRet.nil /\ ceRet.err = "none" /\ ceRet.env = EmptyEnv)

\* A Windows run whose hook changed nothing and returned 42: the after-dump
\* lists the sentinel, the before-dump does not, and the result is empty.
C10_Witness ==
  /\ ceRet.called /\ ceRet.childState = "exited" /\ ceRet.closePc = "idle"
  /\ goos = "windows" /\ RunsFullScript
  /\ hookOut.ran /\ ~hookOut.exits /\ hookOut.status = 42
  /\ hookOut.env = child.parent /\ child.parent = [k \in {"FOO"} |-> "a"]
  /\ closePc = "idle"
  /\ Sentinel \in DOMAIN AfterSnap /\ Sentinel \notin DOMAIN BeforeSnap
  /\ ~ceRet.nil /\ ceRet.env = EmptyEnv

\* C4 as stated: once Close() has returned, none of the three temporary file
\* paths exists on disk.
C4_AllGoneAfterClose ==
  closePc = "done" => \A p \in Paths : ~fs[p].exists

\* C4, amended: once Close() has returned, and as long as the child has run
\* no step since Close() began, every one of the three paths whose os.Remove
\* did not fail is absent; so none exists when no removal failed.
C4_RemovedUnlessRemoveFailed ==
  (closePc = "done" /\ ~raced) =>
    \A p \in Paths : fs[p].exists => p \in removeFailed

\* Close() has returned after the script ran; the removal of the before-dump
\* failed and left the file, the other two files are gone.
C4_Witness ==
  /\ closePc = "done" /\ ~raced
  /\ child.state = "exited" /\ hookOut.ran
  /\ removeFailed = {"before"}
  /\ fs["before"].exists
  /\ ~fs["script"].exists /\ ~fs["after"].exists

\* C5: when newHookScriptWrapper returns an error, every temporary file it
\* created is removed and closed, or the call returns a non-nil wrapper (all
\* handles closed) through which the caller's Close() reaches the files.
C5_NoLeakOnError ==
  (ret.returned /\ ret.err # "none") =>
    \/ ret.h = "h" /\ \A p \in Paths : handles[p] # "open"
    \/ \A p \in Paths : ~fs[p].exists /\ handles[p] # "open"

\* The files as newHookScriptWrapper left them: Close has not begun and no
\* child has been started.
Untouched == closePc = "idle" /\ child.state = "none"

\* C6: newHookScriptWrapper returns a nil error only when all three files
\* were created, the script file holds the complete generated script and it
\* was marked executable.
C6_NilErrorMeansComplete ==
  (ret.returned /\ ret.err = "none" /\ Untouched) =>
    /\ ret.h = "h"
    /\ \A p \in Paths : fs[p].exists
    /\ fs[h.scriptFile].content = FullScript
    /\ fs[h.scriptFile].exec

\* Position of the first occurrence of statement e in the log, 0 if none.
LogPos(e) ==
  IF \E i \in 1..Len(log) : log[i] = e
    THEN CHOOSE i \in 1..Len(log) : log[i] = e /\ \A j \in 1..(i - 1) : log[j] # e
    ELSE 0

LogCount(e) == Cardinality({i \in 1..Len(log) : log[i] = e})

\* C8: in a run of newHookScriptWrapper that returns no error the script is
\* written, then the script file handle closed, then the execute permission
\* set, exactly once, and then the wrapper returned; and whenever a wrapper
\* is returned the handles of all three temporary files are closed.
C8_ConstructionOrder ==
  /\ (ret.returned /\ ret.h = "h") =>
       \A p \in Paths : handles[p] = "closed"
  /\ (ret.returned /\ ret.err = "none") =>
       /\ ret.h = "h"
       /\ 0 < LogPos("write")
       /\ LogPos("write") < LogPos("closeScript")
       /\ LogPos("closeScript") < LogPos("chmod")
       /\ LogPos("chmod") = Len(log)
       /\ LogCount("write") = 1 /\ LogCount("closeScript") = 1
       /\ LogCount("chmod") = 1

\* A construction that returned a wrapper and no error: the script file holds
\* the script, is executable, and every handle is closed.
C8_Witness ==
  /\ ret.returned /\ ret.h = "h" /\ ret.err = "none" /\ Untouched
  /\ log = FullLog
  /\ fs[h.scriptFile].content = FullScript /\ fs[h.scriptFile].exec
  /\ \A p \in Paths : handles[p] = "closed"

\* A wrapper was returned without error and its script was never run.
NeverRun == ret.returned /\ ret.h = "h" /\ ret.err = "none" /\ child.state = "none"

\* C12 as stated: for a successfully constructed wrapper whose script was
\* never run, both dump files exist and are empty, ChangedEnvironment returns
\* the empty environment and no error, and Close() removes all three files.
C12_NeverRunAllRemoved ==
  NeverRun =>
    /\ closePc = "idle" =>
         \A p \in {"before", "after"} : fs[p].exists /\ fs[p].content = <<>>
    /\ (ceRet.called /\ ceRet.closePc = "idle") =>
         (~ceRet.nil /\ ceRet.err = "none" /\ ceRet.env = EmptyEnv)
    /\ closePc = "done" => \A p \in Paths : ~fs[p].exists

\* C12, amended: as stated, but Close() removes each of the three files
\* whose os.Remove does not fail (it never stops before the third removal).
C12_NeverRunEmptyAndRemoved ==
  NeverRun =>
    /\ closePc = "idle" =>
         \A p \in {"before", "after"} : fs[p].exists /\ fs[p].content = <<>>
    /\ (ceRet.called /\ ceRet.closePc = "idle") =>
         (~ceRet.nil /\ ceRet.err = "none" /\ ceRet.env = EmptyEnv)
    /\ closePc = "done" => \A p \in Paths : fs[p].exists => p \in removeFailed

\* A wrapper never run: ChangedEnvironment gave the empty environment, then
\* Close() returned with all three files removed.
C12_Witness ==
  /\ NeverRun
  /\ ceRet.called /\ ceRet.closePc = "idle"
  /\ ~ceRet.nil /\ ceRet.env = EmptyEnv
  /\ closePc = "done" /\ removeFailed = {}
  /\ \A p \in Paths : ~fs[p].exists

\* C13: Close() attempts all three removals whatever the earlier ones did,
\* and every removal that failed is surfaced to the caller.
C13_FailuresSurfaced ==
  /\ closePc \in {"idle", "before", "after", "done"}
  /\ closePc = "done" => removeFailed \subseteq CloseReported

\* C14 as stated: once Close() has returned with the three paths absent they
\* stay absent in every later step, also when the child is still running.
C14_StayAbsent ==
  [][ (closePc = "done" /\ \A p \in Paths : ~fs[p].exists)
        => (\A p \in Paths : ~fs'[p].exists) ]_vars

\* The child took no step since Close() began and is not running.
ChildQuiet == ~raced /\ child.state # "running"

\* C14, amended: once Close() has returned with no removal failed, and the
\* child has not run since Close() began and is not running (it exited, was
\* killed or was never started), the three paths are absent, in this and so
\* in every later state, and a ChangedEnvironment call made after Close()
\* returned gives an error and no environment.
C14_AbsentWhenChildQuiet ==
  (closePc = "done" /\ removeFailed = {} /\ ChildQuiet) =>
    /\ \A p \in Paths : ~fs[p].exists
    /\ (ceRet.called /\ ceRet.closePc = "done") =>
         (ceRet.nil /\ ceRet.err = "before")

\* The child was killed before its first dump, Close() then removed the three
\* files, and the ChangedEnvironment call after it returned an error.
C14_Witness ==
  /\ closePc = "done" /\ removeFailed = {} /\ ChildQuiet
  /\ child.state = "killed" /\ ~hookOut.ran
  /\ \A p \in Paths : ~fs[p].exists
  /\ ceRet.called /\ ceRet.closePc = "done" /\ ceRet.nil /\ ceRet.err = "before"

\* The run has ended (hook exited the shell, or child killed) after the
\* before-dump line ran and before the after-dump line did.
EndedBetweenDumps ==
  /\ child.state \in {"exited", "killed"}
  /\ \E i \in 1..Len(child.trace) :
       child.trace[i].op = "dump" /\ child.trace[i].file = h.beforeEnvFile
  /\ \A i \in 1..Len(child.trace) :
       ~(child.trace[i].op = "dump" /\ child.trace[i].file = h.afterEnvFile)

\* C15: if the run ends after the before-dump was written and before the
\* after-dump line runs, then (until Close) the after-dump file is still the
\* empty file of the construction, and a ChangedEnvironment call made after
\* the run ended returns the empty environment and no error, whatever the
\* hook had exported.
C15_EmptyDiffWhenCutShort ==
  EndedBetweenDumps =>
    /\ closePc = "idle" =>
         (fs[h.afterEnvFile].exists /\ fs[h.afterEnvFile].content = <<>>)
    /\ ( /\ ceRet.called /\ ceRet.closePc = "idle"
         /\ ceRet.childState \in {"exited", "killed"} ) =>
         (~ceRet.nil /\ ceRet.err = "none" /\ ceRet.env = EmptyEnv)

\* The hook exported FOO=b over a launcher environment without FOO, the child
\* was then killed before the capture line, and ChangedEnvironment returned
\* the empty environment.
C15_Witness ==
  /\ EndedBetweenDumps /\ child.state = "killed"
  /\ hookOut.ran /\ ~hookOut.exits
  /\ hookOut.env = [k \in {"FOO"} |-> "b"] /\ child.parent = EmptyEnv
  /\ ceRet.called /\ ceRet.closePc = "idle" /\ ceRet.childState = "killed"
  /\ ~ceRet.nil /\ ceRet.env = EmptyEnv

\* ------------------------------------------------- two wrappers at a time

\* How many names shell.TempFileWithExtension can draw for one prefix.
MaxSuffix == 2

\* Two hooks run by two goroutines of one agent, or by two agents on one host.
Wrappers == {"w1", "w2"}

\* A temporary file name: the prefix newHookScriptWrapper passes for it and
\* the part the temp-file helper adds to make it unique.
TempNames == Paths \X (1..MaxSuffix)

\* The name of a nil *os.File field.
NoName == <<"nil", 0>>

\* shell.TempFileWithExtension(prefix): the names it may create the file
\* under, those of the prefix that no existing file has.
FreeNames(prefix) == {n \in TempNames : n[1] = prefix /\ ~fs[n].exists}

\* The environment each launcher starts its script in: the two differ, so
\* that a dump read from the other wrapper's file shows in the result.
TwoParentEnv == [w \in Wrappers |-> IF w = "w1" THEN EmptyEnv
                                               ELSE [k \in {"FOO"} |-> "a"]]

\* Environments a hook leaves behind.
TwoHookEnvs == {[k \in {"FOO"} |-> "a"], [k \in {"FOO"} |-> "b"]}

\* The variables that hold one value per wrapper here are pc, h, ret, child,
\* hookOut, closePc and ceRet; fs holds the files under their names. These
\* are the same for both wrappers or not followed.
twoFixed == <<goos, hookPath, handles, absHook, log, removeFailed, raced>>

\* Before either newHookScriptWrapper(hookPath) runs.
InitTwo ==
  /\ goos \in Platforms
  /\ hookPath = [abs |-> TRUE, parts |-> <<"etc", "hooks", "pre-command">>]
  /\ pc = [w \in Wrappers |-> "createScript"]
  /\ h = [w \in Wrappers |->
            [scriptFile |-> NoName, beforeEnvFile |-> NoName, afterEnvFile |-> NoName]]
  /\ handles = {}
  /\ fs = [n \in TempNames |-> NoFile]
  /\ absHook = hookPath
  /\ ret = [w \in Wrappers |-> [returned |-> FALSE, h |-> "nil", err |-> "none"]]
  /\ log = <<>>
  /\ child = [w \in Wrappers |-> NoChild]
  /\ hookOut = [w \in Wrappers |-> NoHookOut]
  /\ closePc = [w \in Wrappers |-> "idle"]
  /\ removeFailed = {}
  /\ raced = FALSE
  /\ ceRet = [w \in Wrappers |-> NoResult]

\* return nil, err in wrapper w
TwoFail(w) ==
  /\ ret' = [ret EXCEPT ![w] = [returned |-> TRUE, h |-> "nil", err |-> "tempfile"]]
  /\ pc' = [pc EXCEPT ![w] = "returned"]
  /\ UNCHANGED <<fs, h>>

\* h.scriptFile, err = shell.TempFileWithExtension(...) in wrapper w
TwoCreateScript(w) ==
  /\ pc[w] = "createScript"
  /\ \/ \E n \in FreeNames("script") :
          /\ fs' = [fs EXCEPT ![n] = NewFile]
          /\ h' = [h EXCEPT ![w].scriptFile = n]
          /\ pc' = [pc EXCEPT ![w] = "createBefore"]
          /\ UNCHANGED ret
     \/ TwoFail(w)
  /\ UNCHANGED <<child, hookOut, closePc, ceRet, twoFixed>>

\* TwoCreateBefore creating the file under one fixed name (os.Create of a
\* path without a unique part, which truncates a file that is there).
TwoCreateBefore_FixedName(w) ==
  /\ pc[w] = "createBefore"
  /\ \/ \E n \in {<<"before", 1>>} :
          /\ fs' = [fs EXCEPT ![n] = NewFile]
          /\ h' = [h EXCEPT ![w].beforeEnvFile = n]
          /\ pc' = [pc EXCEPT ![w] = "createAfter"]
          /\ UNCHANGED ret
     \/ TwoFail(w)
  /\ UNCHANGED <<child, hookOut, closePc, ceRet, twoFixed>>

\* h.beforeEnvFile, err = shell.TempFileWithExtension(...) in wrapper w
TwoCreateBefore(w) ==
  /\ pc[w] = "createBefore"
  /\ \/ \E n \in FreeNames("before") :
          /\ fs' = [fs EXCEPT ![n] = NewFile]
          /\ h' = [h EXCEPT ![w].beforeEnvFile = n]
          /\ pc' = [pc EXCEPT ![w] = "createAfter"]
          /\ UNCHANGED ret
     \/ TwoFail(w)
  /\ UNCHANGED <<child, hookOut, closePc, ceRet, twoFixed>>

\* h.afterEnvFile, err = shell.TempFileWithExtension(...) in wrapper w
TwoCreateAfter(w) ==
  /\ pc[w] = "createAfter"
  /\ \/ \E n \in FreeNames("after") :
          /\ fs' = [fs EXCEPT ![n] = NewFile]
          /\ h' = [h EXCEPT ![w].afterEnvFile = n]
          /\ pc' = [pc EXCEPT ![w] = "abs"]
          /\ UNCHANGED ret
     \/ TwoFail(w)
  /\ UNCHANGED <<child, hookOut, closePc, ceRet, twoFixed>>

\* The rest of newHookScriptWrapper in wrapper w when every call succeeds:
\* filepath.Abs, the script written in full to h.scriptFile and closed, the
\* execute permission added, return h, nil.
TwoFinish(w) ==
  /\ pc[w] = "abs"
  /\ fs' = [fs EXCEPT ![h[w].scriptFile] =
              [exists |-> TRUE, exec |-> TRUE,
               content |-> GenScript(goos, h[w].beforeEnvFile, Abs(hookPath),
                                     h[w].afterEnvFile)]]
  /\ ret' = [ret EXCEPT ![w] = [returned |-> TRUE, h |-> "h", err |-> "none"]]
  /\ pc' = [pc EXCEPT ![w] = "returned"]
  /\ UNCHANGED <<h, child, hookOut, closePc, ceRet, twoFixed>>

\* The launcher of wrapper w runs w's Path() as a child process, started in
\* that launcher's environment.
TwoLaunch(w) ==
  /\ ret[w].returned /\ ret[w].h = "h"
  /\ closePc[w] = "idle"
  /\ child[w].state = "none"
  /\ fs[h[w].scriptFile].exists /\ fs[h[w].scriptFile].exec
  /\ LET e == TwoParentEnv[w]
     IN child' = [child EXCEPT ![w] =
                    [NoChild EXCEPT !.state = "running",
                                    !.prog = fs[h[w].scriptFile].content,
                                    !.parent = e, !.vars = e, !.exported = DOMAIN e]]
  /\ UNCHANGED <<pc, h, fs, ret, hookOut, closePc, ceRet, twoFixed>>

\* The line wrapper w's shell is about to run.
TwoCur(w) == child[w].prog[child[w].ip]

TwoAtLine(w, ops) ==
  /\ child[w].state = "running"
  /\ child[w].ip <= Len(child[w].prog)
  /\ TwoCur(w).op \in ops

\* "#!/bin/bash", "@echo off", "SETLOCAL ENABLEDELAYEDEXPANSION" in w's shell
TwoExecPreamble(w) ==
  /\ TwoAtLine(w, {"shebang", "echo_off", "setlocal"})
  /\ child' = [child EXCEPT ![w].ip = @ + 1]
  /\ UNCHANGED <<pc, h, fs, ret, hookOut, closePc, ceRet, twoFixed>>

\* export -p > "file" / SET > "file" in w's shell: the file named in w's
\* script is created or truncated and receives w's exported variables.
TwoExecDump(w) ==
  /\ TwoAtLine(w, {"dump"})
  /\ fs' = [fs EXCEPT ![TwoCur(w).file] =
              [exists |-> TRUE, exec |-> @.exec,
               content |-> ExportDump([k \in child[w].exported |-> child[w].vars[k]])]]
  /\ child' = [child EXCEPT ![w].ip = @ + 1]
  /\ UNCHANGED <<pc, h, ret, hookOut, closePc, ceRet, twoFixed>>

\* . "hook" / CALL "hook" in w's shell: the hook leaves any environment e.
TwoExecHook(w) ==
  /\ TwoAtLine(w, {"source", "call"})
  /\ \E e \in TwoHookEnvs :
       /\ hookOut' = [hookOut EXCEPT ![w] = [NoHookOut EXCEPT !.ran = TRUE, !.env = e]]
       /\ child' = [child EXCEPT ![w].vars = e, ![w].exported = DOMAIN e,
                                 ![w].ip = @ + 1]
  /\ UNCHANGED <<pc, h, fs, ret, closePc, ceRet, twoFixed>>

\* The capture line in w's shell.
TwoExecCapture(w) ==
  /\ TwoAtLine(w, {"capture"})
  /\ child' = [child EXCEPT ![w].vars = EnvSet(@, Sentinel, Itoa(child[w].last)),
                            ![w].exported = IF goos = "windows"
                                              THEN @ \cup {Sentinel} ELSE @,
                            ![w].ip = @ + 1]
  /\ UNCHANGED <<pc, h, fs, ret, hookOut, closePc, ceRet, twoFixed>>

\* The exit line in w's shell.
TwoExecExit(w) ==
  /\ TwoAtLine(w, {"exit"})
  /\ child' = [child EXCEPT ![w].state = "exited",
                            ![w].exit = Atoi(child[w].vars[Sentinel])]
  /\ UNCHANGED <<pc, h, fs, ret, hookOut, closePc, ceRet, twoFixed>>

\* h.ChangedEnvironment() on wrapper w, called by the launcher once w's child
\* has exited and before it closes w: it reads the two dump files named in
\* w's own fields.
TwoChangedEnvironment(w) ==
  /\ ret[w].returned /\ ret[w].h = "h"
  /\ child[w].state = "exited"
  /\ closePc[w] = "idle"
  /\ ~ceRet[w].called
  /\ LET r == ChangedEnvironmentOf(fs[h[w].beforeEnvFile], fs[h[w].afterEnvFile])
     IN ceRet' = [ceRet EXCEPT ![w] =
                    [called |-> TRUE, nil |-> r.nil, env |-> r.env, err |-> r.err,
                     childState |-> child[w].state, closePc |-> closePc[w]]]
  /\ UNCHANGED <<pc, h, fs, ret, child, hookOut, closePc, twoFixed>>

\* w.Close(), os.Remove(h.scriptFile.Name()): called by the launcher once
\* w's child is not running; the removals succeed.
TwoCloseScript(w) ==
  /\ ret[w].returned /\ ret[w].h = "h"
  /\ child[w].state # "running"
  /\ closePc[w] = "idle"
  /\ fs' = [fs EXCEPT ![h[w].scriptFile] = NoFile]
  /\ closePc' = [closePc EXCEPT ![w] = "before"]
  /\ UNCHANGED <<pc, h, ret, child, hookOut, ceRet, twoFixed>>

\* w.Close(), os.Remove(h.beforeEnvFile.Name())
TwoCloseBefore(w) ==
  /\ closePc[w] = "before"
  /\ fs' = [fs EXCEPT ![h[w].beforeEnvFile] = NoFile]
  /\ closePc' = [closePc EXCEPT ![w] = "after"]
  /\ UNCHANGED <<pc, h, ret, child, hookOut, ceRet, twoFixed>>

\* w.Close(), os.Remove(h.afterEnvFile.Name())
TwoCloseAfter(w) ==
  /\ closePc[w] = "after"
  /\ fs' = [fs EXCEPT ![h[w].afterEnvFile] = NoFile]
  /\ closePc' = [closePc EXCEPT ![w] = "done"]
  /\ UNCHANGED <<pc, h, ret, child, hookOut, ceRet, twoFixed>>

NextTwo ==
  \E w \in Wrappers :
    \/ TwoCreateScript(w)
    \/ TwoCreateBefore(w)
    \/ TwoCreateAfter(w)
    \/ TwoFinish(w)
    \/ TwoLaunch(w)
    \/ TwoExecPreamble(w)
    \/ TwoExecDump(w)
    \/ TwoExecHook(w)
    \/ TwoExecCapture(w)
    \/ TwoExecExit(w)
    \/ TwoChangedEnvironment(w)
    \/ TwoCloseScript(w)
    \/ TwoCloseBefore(w)
    \/ TwoCloseAfter(w)

SpecTwo == InitTwo /\ [][NextTwo]_vars

\* The three temporary files of wrapper w.
FilesOf(w) == {h[w].scriptFile, h[w].beforeEnvFile, h[w].afterEnvFile}

\* Wrapper w is alive: constructed and not yet closed.
Alive(w) == ret[w].returned /\ ret[w].h = "h" /\ closePc[w] = "idle"

\* C11: two wrappers alive at the same time hold six pairwise distinct
\* temporary file paths; as long as a wrapper is alive its three files exist,
\* so no Close() on the other wrapper removed one of them; and what
\* ChangedEnvironment returns on a wrapper whose child has exited is the
\* difference between the environment that wrapper's own hook left and the
\* environment that wrapper's own script was started in.
C11_WrappersIsolated ==
  /\ \A w \in Wrappers :
       Alive(w) => /\ Cardinality(FilesOf(w)) = Cardinality(Paths)
                   /\ \A f \in FilesOf(w) : fs[f].exists
  /\ \A v \in Wrappers, w \in Wrappers :
       (v # w /\ Alive(v) /\ Alive(w)) => FilesOf(v) \cap FilesOf(w) = {}
  /\ \A w \in Wrappers :
       (ceRet[w].called /\ ceRet[w].closePc = "idle") =>
          /\ ~ceRet[w].nil /\ ceRet[w].err = "none"
          /\ ceRet[w].env = EnvDiff(EnvRemove(hookOut[w].env, Sentinel),
                                    child[w].parent)

\* Both wrappers were alive together with six existing files; the hooks left
\* different environments; w1 has since been closed and w2 still has its
\* three files and reports its own hook's change, not w1's.
C11_Witness ==
  /\ closePc["w1"] = "done" /\ Alive("w2")
  /\ FilesOf("w1") \cap FilesOf("w2") = {}
  /\ \A f \in FilesOf("w2") : fs[f].exists
  /\ hookOut["w1"].env = [k \in {"FOO"} |-> "a"] /\ child["w1"].parent = EmptyEnv
  /\ hookOut["w2"].env = [k \in {"FOO"} |-> "b"]
  /\ child["w2"].parent = [k \in {"FOO"} |-> "a"]
  /\ ceRet["w1"].called /\ ceRet["w1"].closePc = "idle"
  /\ ceRet["w1"].env = [k \in {"FOO"} |-> "a"]
  /\ ceRet["w2"].called /\ ceRet["w2"].env = [k \in {"FOO"} |-> "b"]

====
